---- MODULE Spec2Model ----
(***************************************************************************)
(* A model of argilla_dataset_manager: DatasetManager                      *)
(* (src/utils/dataset_manager.py) and the module-level helpers of          *)
(* src/utils/argilla_client.py, running against the remote annotation      *)
(* platform they drive through the SDK.                                    *)
(*                                                                         *)
(* The platform is the state: the set of workspaces and, per               *)
(* (workspace, name), a dataset with its settings and its ordered records. *)
(* An SDK call either completes or raises a raw fault; which call of an    *)
(* operation (if any) raises is an input of the operation.  A call that    *)
(* raises leaves the platform as it was.  A lookup of something absent     *)
(* completes with None, which is the outcome _get_workspace tests for.     *)
(* The program is single-threaded: one operation runs at a time, and the   *)
(* migration loop is the only one observed step by step.                   *)
(***************************************************************************)
EXTENDS Integers, Sequences, FiniteSets, TLC

VARIABLES workspaces, datasets, last, mig, ops

vars == <<workspaces, datasets, last, mig, ops>>

(***************************************************************************)
(* Bounds of the model and the inputs operations are called with.          *)
(***************************************************************************)
MaxRecords == 2

MaxDatasets == 2

MaxClock == 2

MaxBatch == 2

MaxOps == 3

Workspaces == {"w1", "w2"}

BaseNames == {"a", "b"}

\* The lists of n records a caller logs: r1, r1, r1, ... and r1, r2, r1, ...
Records(n) == {[i \in 1..n |-> "r1"], [i \in 1..n |-> IF i % 2 = 1 THEN "r1" ELSE "r2"]}

\* batch_size as callers may pass it: an int, not validated by migrate_dataset.
BatchSizes == (0 - 1)..MaxBatch

\* The default of migrate_dataset's batch_size parameter.
DefaultBatchSize == 100

\* transform_record: None, or a function that marks a record and raises on record r2.
Transforms == {"None", "mark"}

\* Settings dictionaries a caller passes to create / migrate / update.
SettingsDicts == {<<>>, [guidelines |-> "g1", labels |-> <<"x", "y">>]}

\* An SDK settings object not built by create_dataset (two fields, a rating).
ForeignSettings == [guidelines |-> "g2", fields |-> <<"text", "context">>, questions |-> <<[name |-> "rating", labels |-> <<"1", "2">>]>>]

(***************************************************************************)
(* Values: None, handles, errors.                                          *)
(***************************************************************************)
\* Python's None; a workspace handle is <<name>>, a dataset handle <<workspace, name>>.
None == <<>>

NoErr == [kind |-> "none", ctx |-> "", cause |-> "none", wraps |-> 0]

\* A raw fault of the SDK or of Python (ApiError, NotFoundApiError, ConflictError, AttributeError).
Raw(kind) == [kind |-> kind, ctx |-> "", cause |-> "none", wraps |-> 0]

\* DatasetError(f"<ctx>: {str(e)}"), e of class `cause` ("none": raised afresh).
DatasetError(ctx, cause) == [kind |-> "DatasetError", ctx |-> ctx, cause |-> cause, wraps |-> 1]

\* A mutant of Wrap: wraps whatever it catches, a DatasetError included.
WrapAlways(ctx, e) == [kind |-> "DatasetError", ctx |-> ctx, cause |-> e.kind, wraps |-> e.wraps + 1]

\* except Exception as e: if not isinstance(e, DatasetError): e = DatasetError(...); raise e
Wrap(ctx, e) == IF e.kind = "DatasetError" THEN e ELSE DatasetError(ctx, e.kind)

\* The fault injected into an operation: the SDK call site that raises, and what.
NoFault == [site |-> "none", kind |-> "none"]

Fault(site) == [site |-> site, kind |-> "ApiError"]

NotFound(site) == [site |-> site, kind |-> "NotFoundApiError"]

\* One SDK call issued by an operation, and whether it completed.
Call(site, arg, ok) == [site |-> site, arg |-> arg, ok |-> ok]

\* dict.get(key, default)
Get(m, key, default) == IF key \in DOMAIN m THEN m[key] ELSE default

(***************************************************************************)
(* The SDK calls the code makes, against the platform state.               *)
(***************************************************************************)
\* client.workspaces(name)
SdkWorkspaces(ws, name, f) ==
    IF f.site = "workspaces" THEN [ret |-> None, err |-> Raw(f.kind)]
    ELSE [ret |-> IF name \in ws THEN <<name>> ELSE None, err |-> NoErr]

\* rg.Workspace(name=..., client=...).create()
SdkWorkspaceCreate(ws, name, f) ==
    IF f.site = "Workspace.create" THEN [ws |-> ws, ret |-> None, err |-> Raw(f.kind)]
    ELSE IF name \in ws THEN [ws |-> ws, ret |-> None, err |-> Raw("ConflictError")]
    ELSE [ws |-> ws \cup {name}, ret |-> <<name>>, err |-> NoErr]

\* client.datasets(name=..., workspace=<handle>)
SdkDatasets(ds, name, w, f) ==
    IF f.site = "datasets" THEN [ret |-> None, err |-> Raw(f.kind)]
    ELSE [ret |-> IF <<w[1], name>> \in DOMAIN ds THEN <<w[1], name>> ELSE None, err |-> NoErr]

\* rg.Dataset(name=..., workspace=..., settings=..., client=...).create(): a new, empty dataset
SdkDatasetCreate(ds, w, name, settings, f) ==
    IF f.site = "Dataset.create" THEN [ds |-> ds, ret |-> None, err |-> Raw(f.kind)]
    ELSE IF <<w, name>> \in DOMAIN ds THEN [ds |-> ds, ret |-> None, err |-> Raw("ConflictError")]
    ELSE [ds |-> (<<w, name>> :> [settings |-> settings, records |-> <<>>]) @@ ds, ret |-> <<w, name>>, err |-> NoErr]

(***************************************************************************)
(* DatasetManager._get_workspace and DatasetManager.create_dataset.        *)
(***************************************************************************)
\* A mutant of _get_workspace: creates the workspace whatever `create` says.
GetWorkspaceAlwaysCreates(ws, workspace, create, f) ==
    LET l == SdkWorkspaces(ws, workspace, f)
        c == SdkWorkspaceCreate(ws, workspace, f)
    IN  IF l.err # NoErr
        THEN [ws |-> ws, ret |-> None, err |-> Wrap("Error accessing workspace", l.err),
              calls |-> <<Call("workspaces", <<workspace>>, FALSE)>>]
        ELSE IF l.ret # None
        THEN [ws |-> ws, ret |-> l.ret, err |-> NoErr, calls |-> <<Call("workspaces", <<workspace>>, TRUE)>>]
        ELSE [ws |-> c.ws, ret |-> c.ret,
              err |-> IF c.err = NoErr THEN NoErr ELSE Wrap("Error accessing workspace", c.err),
              calls |-> <<Call("workspaces", <<workspace>>, TRUE), Call("Workspace.create", <<workspace>>, c.err = NoErr)>>]

_get_workspace(ws, workspace, create, f) ==
    LET l == SdkWorkspaces(ws, workspace, f)
        c == SdkWorkspaceCreate(ws, workspace, f)
    IN  IF l.err # NoErr
        THEN [ws |-> ws, ret |-> None, err |-> Wrap("Error accessing workspace", l.err),
              calls |-> <<Call("workspaces", <<workspace>>, FALSE)>>]
        ELSE IF l.ret # None
        THEN [ws |-> ws, ret |-> l.ret, err |-> NoErr, calls |-> <<Call("workspaces", <<workspace>>, TRUE)>>]
        ELSE IF create
        THEN [ws |-> c.ws, ret |-> c.ret,
              err |-> IF c.err = NoErr THEN NoErr ELSE Wrap("Error accessing workspace", c.err),
              calls |-> <<Call("workspaces", <<workspace>>, TRUE), Call("Workspace.create", <<workspace>>, c.err = NoErr)>>]
        ELSE [ws |-> ws, ret |-> None,
              err |-> Wrap("Error accessing workspace", DatasetError("Workspace not found", "none")),
              calls |-> <<Call("workspaces", <<workspace>>, TRUE)>>]

\* rg.Settings(guidelines=settings.get('guidelines', ''), fields=[TextField("text")],
\*             questions=[LabelQuestion("label", labels=settings.get('labels', [...]))])
ArgillaSettings(settings) ==
    [guidelines |-> Get(settings, "guidelines", ""),
     fields |-> <<"text">>,
     questions |-> <<[name |-> "label", labels |-> Get(settings, "labels", <<"positive", "negative">>)]>>]

create_dataset(ws, ds, workspace, dataset, settings, f) ==
    LET g == _get_workspace(ws, workspace, TRUE, f)
        c == SdkDatasetCreate(ds, g.ret[1], dataset, ArgillaSettings(settings), f)
    IN  IF g.err # NoErr
        THEN [ws |-> g.ws, ds |-> ds, ret |-> None, err |-> Wrap("Failed to create dataset", g.err), calls |-> g.calls]
        ELSE [ws |-> g.ws, ds |-> c.ds, ret |-> c.ret,
              err |-> IF c.err = NoErr THEN NoErr ELSE Wrap("Failed to create dataset", c.err),
              calls |-> Append(g.calls, Call("Dataset.create", <<g.ret[1], dataset>>, c.err = NoErr))]

(***************************************************************************)
(* The helpers of argilla_client.py: no exception is translated here.      *)
(***************************************************************************)
get_or_create_workspace(ws, workspace_name, f) ==
    LET l == SdkWorkspaces(ws, workspace_name, f)
        c == SdkWorkspaceCreate(ws, workspace_name, NoFault)
    IN  IF l.err.kind = "NotFoundApiError"
        THEN [ws |-> c.ws, ret |-> IF c.err = NoErr THEN <<workspace_name>> ELSE None, err |-> c.err,
              calls |-> <<Call("workspaces", <<workspace_name>>, FALSE), Call("Workspace.create", <<workspace_name>>, c.err = NoErr)>>]
        ELSE [ws |-> ws, ret |-> l.ret, err |-> l.err, calls |-> <<Call("workspaces", <<workspace_name>>, l.err = NoErr)>>]

get_or_create_dataset(ds, workspace, dataset_name, settings, f) ==
    LET l == SdkDatasets(ds, dataset_name, workspace, f)
        c == SdkDatasetCreate(ds, workspace[1], dataset_name, settings, NoFault)
    IN  IF l.err.kind = "NotFoundApiError"
        THEN [ds |-> c.ds, ret |-> IF c.err = NoErr THEN <<workspace[1], dataset_name>> ELSE None, err |-> c.err,
              calls |-> <<Call("datasets", <<workspace[1], dataset_name>>, FALSE),
                          Call("Dataset.create", <<workspace[1], dataset_name>>, c.err = NoErr)>>]
        ELSE [ds |-> ds, ret |-> l.ret, err |-> l.err,
              calls |-> <<Call("datasets", <<workspace[1], dataset_name>>, l.err = NoErr)>>]

\* dataset.records.log(records): the records are appended in order
log_records_to_dataset(ds, dataset, records, f) ==
    IF dataset = None
    THEN [ds |-> ds, ret |-> None, err |-> Raw("AttributeError"), calls |-> <<>>]
    ELSE IF f.site = "log"
    THEN [ds |-> ds, ret |-> None, err |-> Raw(f.kind), calls |-> <<Call("log", dataset, FALSE)>>]
    ELSE [ds |-> [ds EXCEPT ![dataset].records = @ \o records], ret |-> None, err |-> NoErr,
          calls |-> <<Call("log", dataset, TRUE)>>]

(***************************************************************************)
(* DatasetManager.delete_dataset and the in-place branch of                *)
(* DatasetManager.update_dataset_settings.                                 *)
(***************************************************************************)
\* dataset_obj.delete()
SdkDelete(ds, dataset, f) ==
    IF dataset = None THEN [ds |-> ds, err |-> Raw("AttributeError")]
    ELSE IF f.site = "delete" THEN [ds |-> ds, err |-> Raw(f.kind)]
    ELSE [ds |-> [k \in DOMAIN ds \ {dataset} |-> ds[k]], err |-> NoErr]

\* A mutant of delete_dataset: resolves the workspace with the default create=True.
DeleteResolvesWithCreate(ws, ds, workspace, dataset, f) ==
    LET g == _get_workspace(ws, workspace, TRUE, f)
        l == SdkDatasets(ds, dataset, g.ret, f)
        d == SdkDelete(ds, l.ret, f)
    IN  IF g.err # NoErr
        THEN [ws |-> g.ws, ds |-> ds, ret |-> None, err |-> Wrap("Dataset deletion failed", g.err), calls |-> g.calls]
        ELSE IF l.err # NoErr
        THEN [ws |-> g.ws, ds |-> ds, ret |-> None, err |-> Wrap("Dataset deletion failed", l.err),
              calls |-> Append(g.calls, Call("datasets", <<workspace, dataset>>, FALSE))]
        ELSE [ws |-> g.ws, ds |-> d.ds, ret |-> None,
              err |-> IF d.err = NoErr THEN NoErr ELSE Wrap("Dataset deletion failed", d.err),
              calls |-> g.calls \o <<Call("datasets", <<workspace, dataset>>, TRUE)>>
                        \o (IF l.ret = None THEN <<>> ELSE <<Call("delete", <<workspace, dataset>>, d.err = NoErr)>>)]

delete_dataset(ws, ds, workspace, dataset, f) ==
    LET g == _get_workspace(ws, workspace, FALSE, f)
        l == SdkDatasets(ds, dataset, g.ret, f)
        d == SdkDelete(ds, l.ret, f)
    IN  IF g.err # NoErr
        THEN [ws |-> g.ws, ds |-> ds, ret |-> None, err |-> Wrap("Dataset deletion failed", g.err), calls |-> g.calls]
        ELSE IF l.err # NoErr
        THEN [ws |-> g.ws, ds |-> ds, ret |-> None, err |-> Wrap("Dataset deletion failed", l.err),
              calls |-> Append(g.calls, Call("datasets", <<workspace, dataset>>, FALSE))]
        ELSE [ws |-> g.ws, ds |-> d.ds, ret |-> None,
              err |-> IF d.err = NoErr THEN NoErr ELSE Wrap("Dataset deletion failed", d.err),
              calls |-> g.calls \o <<Call("datasets", <<workspace, dataset>>, TRUE)>>
                        \o (IF l.ret = None THEN <<>> ELSE <<Call("delete", <<workspace, dataset>>, d.err = NoErr)>>)]

\* for key, value in new_settings.items(): if hasattr(dataset_obj, key): setattr(dataset_obj, key, value)
\* The live object carries the fields of its settings; nothing else is assigned.
SetAttrs(ds, dataset, new_settings) ==
    IF dataset = None THEN ds
    ELSE [ds EXCEPT ![dataset].settings =
             [k \in DOMAIN @ |-> IF k \in DOMAIN new_settings THEN new_settings[k] ELSE @[k]]]

update_in_place(ws, ds, workspace, dataset, new_settings, f) ==
    LET g == _get_workspace(ws, workspace, FALSE, f)
        l == SdkDatasets(ds, dataset, g.ret, f)
    IN  IF g.err # NoErr
        THEN [ws |-> g.ws, ds |-> ds, ret |-> None, err |-> Wrap("Settings update failed", g.err), calls |-> g.calls]
        ELSE IF l.err # NoErr
        THEN [ws |-> g.ws, ds |-> ds, ret |-> None, err |-> Wrap("Settings update failed", l.err),
              calls |-> Append(g.calls, Call("datasets", <<workspace, dataset>>, FALSE))]
        ELSE [ws |-> g.ws, ds |-> SetAttrs(ds, l.ret, new_settings), ret |-> l.ret, err |-> NoErr,
              calls |-> Append(g.calls, Call("datasets", <<workspace, dataset>>, TRUE))]

(***************************************************************************)
(* DatasetManager.migrate_dataset: what precedes the loop, and the pieces  *)
(* of the loop body.                                                       *)
(***************************************************************************)
Min(a, b) == IF a < b THEN a ELSE b

Max(a, b) == IF a > b THEN a ELSE b

\* A mutant of Slice: the batch always starts at the first record.
SliceFromStart(s, start, stop) ==
    LET hi == IF stop < 0 THEN Max(Len(s) + stop, 0) ELSE Min(stop, Len(s))
    IN  IF hi > 0 THEN SubSeq(s, 1, hi) ELSE <<>>

\* source[start:stop], start >= 0, as Python slices a list (a negative stop counts from the end)
Slice(s, start, stop) ==
    LET lo == Min(start, Len(s))
        hi == IF stop < 0 THEN Max(Len(s) + stop, 0) ELSE Min(stop, Len(s))
    IN  IF hi > lo THEN SubSeq(s, lo + 1, hi) ELSE <<>>

\* transform_record(record), when it returns
TransformRecord(t, r) == r \o "*"

\* transform_record(record) raises
Raises(t, r) == r = "r2"

\* A mutant of TransformBatch: a record the transform raises on is passed through, no error.
TransformBatchSwallows(t, records) ==
    [records |-> [i \in 1..Len(records) |-> TransformRecord(t, records[i])], err |-> NoErr]

\* if transform_record: records = [transform_record(record) for record in records], DatasetError if it raises
TransformBatch(t, records) ==
    IF t = "None" THEN [records |-> records, err |-> NoErr]
    ELSE IF \E i \in 1..Len(records) : Raises(t, records[i])
    THEN [records |-> records, err |-> DatasetError("Record transformation failed", "ValueError")]
    ELSE [records |-> [i \in 1..Len(records) |-> TransformRecord(t, records[i])], err |-> NoErr]

\* A mutant of AfterFetch: an empty batch does not end the loop.
AfterFetchNoBreak(records) == "Transforming"

\* if not records: break
AfterFetch(records) == IF records = <<>> THEN "Completed" ELSE "Transforming"

\* Lines 160-175: resolve the source, create the target, count the records.
migrate_start(ws, ds, source_workspace, source_dataset, target_workspace, target_dataset, new_settings, f) ==
    LET g == _get_workspace(ws, source_workspace, FALSE, f)
        l == SdkDatasets(ds, source_dataset, g.ret, f)
        c == create_dataset(ws, ds, target_workspace, target_dataset, new_settings, f)
        looked == Append(g.calls, Call("datasets", <<source_workspace, source_dataset>>, l.err = NoErr))
    IN  IF g.err # NoErr
        THEN [ws |-> ws, ds |-> ds, source |-> None, target |-> None, total |-> 0,
              err |-> Wrap("Migration failed", g.err), calls |-> g.calls]
        ELSE IF l.err # NoErr
        THEN [ws |-> ws, ds |-> ds, source |-> None, target |-> None, total |-> 0,
              err |-> Wrap("Migration failed", l.err), calls |-> looked]
        ELSE IF c.err # NoErr
        THEN [ws |-> c.ws, ds |-> c.ds, source |-> l.ret, target |-> None, total |-> 0,
              err |-> Wrap("Migration failed", c.err), calls |-> looked \o c.calls]
        ELSE IF l.ret = None
        THEN [ws |-> c.ws, ds |-> c.ds, source |-> None, target |-> c.ret, total |-> 0,
              err |-> Wrap("Migration failed", Raw("AttributeError")), calls |-> looked \o c.calls]
        ELSE IF f.site = "to_list"
        THEN [ws |-> c.ws, ds |-> c.ds, source |-> l.ret, target |-> c.ret, total |-> 0,
              err |-> Wrap("Migration failed", Raw(f.kind)),
              calls |-> (looked \o c.calls) \o <<Call("to_list", l.ret, FALSE)>>]
        ELSE [ws |-> c.ws, ds |-> c.ds, source |-> l.ret, target |-> c.ret, total |-> Len(c.ds[l.ret].records),
              err |-> NoErr, calls |-> (looked \o c.calls) \o <<Call("to_list", l.ret, TRUE)>>]

(***************************************************************************)
(* update_dataset_settings(create_new_version=True) and clone_dataset, up  *)
(* to the migration loop they delegate to.                                 *)
(***************************************************************************)
TicksPerSecond == 2

\* datetime.now().strftime("%Y%m%d_%H%M%S"): the time to the second, as text
Strftime(now) == ToString(now \div TicksPerSecond)

\* A mutant of VersionName: the timestamp is left out of the name.
VersionNameNoTimestamp(dataset, now) == dataset \o "_v"

\* new_name = f"{dataset}_v{timestamp}"
VersionName(dataset, now) == dataset \o "_v" \o Strftime(now)

\* the except clause of the operation that called migrate_dataset
Outer(op, e) ==
    IF e = NoErr THEN NoErr
    ELSE IF op = "update_dataset_settings" THEN Wrap("Settings update failed", e)
    ELSE IF op = "clone_dataset" THEN Wrap("Dataset cloning failed", e)
    ELSE e

update_version_start(ws, ds, workspace, dataset, new_settings, now, f) ==
    LET m == migrate_start(ws, ds, workspace, dataset, workspace, VersionName(dataset, now), new_settings, f)
    IN  [m EXCEPT !.err = Outer("update_dataset_settings", @)]

\* new_workspace or workspace
OrElse(a, b) == IF a = "" THEN b ELSE a

clone_start(ws, ds, workspace, dataset, new_name, new_workspace, f) ==
    LET g == _get_workspace(ws, workspace, FALSE, f)
        l == SdkDatasets(ds, dataset, g.ret, f)
        looked == Append(g.calls, Call("datasets", <<workspace, dataset>>, l.err = NoErr))
        m == migrate_start(ws, ds, workspace, dataset, OrElse(new_workspace, workspace), new_name,
                           ds[l.ret].settings, f)
    IN  IF g.err # NoErr
        THEN [ws |-> ws, ds |-> ds, source |-> None, target |-> None, total |-> 0,
              err |-> Wrap("Dataset cloning failed", g.err), calls |-> g.calls]
        ELSE IF l.err # NoErr
        THEN [ws |-> ws, ds |-> ds, source |-> None, target |-> None, total |-> 0,
              err |-> Wrap("Dataset cloning failed", l.err), calls |-> looked]
        ELSE IF l.ret = None
        THEN [ws |-> ws, ds |-> ds, source |-> None, target |-> None, total |-> 0,
              err |-> Wrap("Dataset cloning failed", Raw("AttributeError")), calls |-> looked]
        ELSE [m EXCEPT !.err = Outer("clone_dataset", @), !.calls = looked \o @]

(***************************************************************************)
(* The state machine.  `last` is the outcome of the last operation that    *)
(* ran in one step; `mig` is the frame of the migration that is running    *)
(* or that ran last (migrate_dataset itself, or update_dataset_settings    *)
(* or clone_dataset delegating to it).                                     *)
(***************************************************************************)
NoOp == [op |-> "none", args |-> <<>>, ret |-> None, err |-> NoErr, calls |-> <<>>]

Idle ==
    [op |-> "none", pc |-> "NotStarted", args |-> <<>>, at |-> 0, source |-> None, target |-> None,
     transform |-> "None", batch_size |-> 0, total |-> 0, offset |-> 0, records |-> <<>>,
     ret |-> None, err |-> NoErr, calls |-> <<>>]

Running == mig.pc \in {"Fetching", "Transforming", "Appending"}

\* An operation may start: the caller holds no pending outcome, and the model's budget allows it.
CanCall == last.op = "none" /\ mig.op = "none" /\ ops < MaxOps

\* Names a caller may pass for an existing dataset.
NamesNow == BaseNames \cup {k[2] : k \in DOMAIN datasets}

\* An operation that runs in one step returns or raises.
Finish(o, op, args) ==
    /\ workspaces' = o.ws
    /\ datasets' = o.ds
    /\ Cardinality(DOMAIN o.ds) <= MaxDatasets
    /\ \A k \in DOMAIN o.ds : Len(o.ds[k].records) <= MaxRecords
    /\ last' = [op |-> op, args |-> args, ret |-> o.ret, err |-> o.err, calls |-> o.calls]
    /\ mig' = Idle
    /\ ops' = ops + 1

\* A migration enters its loop, or fails before it (and then never reads transform_record or batch_size).
Begin(o, op, args, now, transform, batch_size) ==
    /\ workspaces' = o.ws
    /\ datasets' = o.ds
    /\ Cardinality(DOMAIN o.ds) <= MaxDatasets
    /\ mig' = [op |-> op, pc |-> IF o.err = NoErr THEN "Fetching" ELSE "Failed", args |-> args, at |-> now,
               source |-> o.source, target |-> o.target,
               transform |-> IF o.err = NoErr THEN transform ELSE "None",
               batch_size |-> IF o.err = NoErr THEN batch_size ELSE 0,
               total |-> o.total, offset |-> 0, records |-> <<>>, ret |-> None, err |-> o.err, calls |-> o.calls]
    /\ last' = NoOp
    /\ ops' = ops + 1

Init ==
    /\ workspaces = {}
    /\ datasets = <<>>
    /\ last = NoOp
    /\ mig = Idle
    /\ ops = 0

\* The caller takes the outcome (the value returned or the exception raised) of the operation that ended.
Return ==
    /\ ops < MaxOps
    /\ \/ last.op # "none"
       \/ mig.pc \in {"Completed", "Failed"}
    /\ last' = NoOp
    /\ mig' = Idle
    /\ UNCHANGED <<workspaces, datasets, ops>>

GetWorkspace ==
    /\ CanCall
    /\ \E workspace \in Workspaces, create \in BOOLEAN,
          f \in {NoFault, Fault("workspaces"), NotFound("workspaces"), Fault("Workspace.create")} :
        /\ LET g == _get_workspace(workspaces, workspace, create, f)
           IN  Finish([ws |-> g.ws, ds |-> datasets, ret |-> g.ret, err |-> g.err, calls |-> g.calls],
                      "_get_workspace", <<workspace, create>>)

CreateDataset ==
    /\ CanCall
    /\ \E workspace \in Workspaces, dataset \in BaseNames, settings \in SettingsDicts,
          f \in {NoFault, Fault("workspaces"), Fault("Workspace.create"), Fault("Dataset.create")} :
        /\ Finish(create_dataset(workspaces, datasets, workspace, dataset, settings, f),
                  "create_dataset", <<workspace, dataset>>)

GetOrCreateWorkspace ==
    /\ CanCall
    /\ \E workspace_name \in Workspaces, f \in {NoFault, Fault("workspaces"), NotFound("workspaces")} :
        /\ LET g == get_or_create_workspace(workspaces, workspace_name, f)
           IN  Finish([ws |-> g.ws, ds |-> datasets, ret |-> g.ret, err |-> g.err, calls |-> g.calls],
                      "get_or_create_workspace", <<workspace_name>>)

GetOrCreateDataset ==
    /\ CanCall
    /\ \E w \in workspaces, dataset_name \in BaseNames, f \in {NoFault, Fault("datasets"), NotFound("datasets")} :
        /\ LET g == get_or_create_dataset(datasets, <<w>>, dataset_name, ForeignSettings, f)
           IN  Finish([ws |-> workspaces, ds |-> g.ds, ret |-> g.ret, err |-> g.err, calls |-> g.calls],
                      "get_or_create_dataset", <<w, dataset_name>>)

LogRecords ==
    /\ CanCall
    /\ \E dataset \in DOMAIN datasets, n \in 1..MaxRecords, f \in {NoFault, Fault("log")} :
        \E records \in Records(n) :
            /\ LET g == log_records_to_dataset(datasets, dataset, records, f)
               IN  Finish([ws |-> workspaces, ds |-> g.ds, ret |-> g.ret, err |-> g.err, calls |-> g.calls],
                          "log_records_to_dataset", dataset)

DeleteDataset ==
    /\ CanCall
    /\ \E workspace \in Workspaces, dataset \in NamesNow,
          f \in {NoFault, Fault("workspaces"), Fault("datasets"), Fault("delete")} :
        /\ Finish(delete_dataset(workspaces, datasets, workspace, dataset, f),
                  "delete_dataset", <<workspace, dataset>>)

\* The calls that may raise before the loop of a migration is entered.
StartFaults == {NoFault, Fault("datasets"), Fault("Dataset.create"), Fault("to_list")}

MigrateDataset ==
    /\ CanCall
    /\ \E source_workspace \in Workspaces, source_dataset \in NamesNow,
          target_workspace \in Workspaces, target_dataset \in BaseNames,
          transform_record \in Transforms, batch_size \in BatchSizes,
          f \in {NoFault, Fault("to_list")} :
        \* new_settings is left at its default, None; update_dataset_settings passes the others
        /\ Begin(migrate_start(workspaces, datasets, source_workspace, source_dataset,
                               target_workspace, target_dataset, None, f),
                 "migrate_dataset", <<source_workspace, source_dataset, target_workspace, target_dataset>>,
                 0, transform_record, batch_size)

UpdateDatasetSettings ==
    /\ CanCall
    /\ \E workspace \in Workspaces, dataset \in NamesNow, new_settings \in SettingsDicts,
          create_new_version \in BOOLEAN, now \in 0..MaxClock, f \in StartFaults :
        /\ IF create_new_version
           THEN Begin(update_version_start(workspaces, datasets, workspace, dataset, new_settings, now, f),
                      "update_dataset_settings", <<workspace, dataset>>, now, "None", DefaultBatchSize)
           ELSE Finish(update_in_place(workspaces, datasets, workspace, dataset, new_settings, f),
                       "update_dataset_settings", <<workspace, dataset>>)

CloneDataset ==
    /\ CanCall
    /\ \E workspace \in Workspaces, dataset \in NamesNow, new_name \in BaseNames,
          new_workspace \in Workspaces \cup {""}, f \in StartFaults :
        /\ Begin(clone_start(workspaces, datasets, workspace, dataset, new_name, new_workspace, f),
                 "clone_dataset", <<workspace, dataset, new_name, new_workspace>>, 0, "None", DefaultBatchSize)

\* while offset < total_records: records = source[offset:offset + batch_size]; if not records: break
\* and, past the loop, return target
MigrateFetch ==
    /\ mig.pc = "Fetching"
    /\ \E f \in {NoFault, Fault("getitem")} :
        LET records == Slice(datasets[mig.source].records, mig.offset, mig.offset + mig.batch_size)
        IN  mig' = IF mig.offset >= mig.total
                   THEN [mig EXCEPT !.pc = "Completed", !.ret = mig.target, !.records = <<>>, !.calls = <<>>]
                   ELSE IF f.site = "getitem"
                   THEN [mig EXCEPT !.pc = "Failed", !.records = <<>>,
                                    !.err = Outer(mig.op, Wrap("Migration failed", Raw(f.kind))),
                                    !.calls = <<Call("getitem", <<mig.offset>>, FALSE)>>]
                   ELSE [mig EXCEPT !.pc = AfterFetch(records), !.records = records,
                                    !.ret = IF AfterFetch(records) = "Completed" THEN mig.target ELSE None,
                                    !.calls = <<Call("getitem", <<mig.offset>>, TRUE)>>]
    /\ UNCHANGED <<workspaces, datasets, last, ops>>

\* if transform_record: records = [transform_record(record) for record in records]
MigrateTransform ==
    /\ mig.pc = "Transforming"
    /\ LET t == TransformBatch(mig.transform, mig.records)
       IN  mig' = IF t.err # NoErr
                  THEN [mig EXCEPT !.pc = "Failed", !.err = Outer(mig.op, Wrap("Migration failed", t.err)),
                                   !.calls = <<>>]
                  ELSE [mig EXCEPT !.pc = "Appending", !.records = t.records, !.calls = <<>>]
    /\ UNCHANGED <<workspaces, datasets, last, ops>>

\* target.add_records(records); offset += len(records)
MigrateAppend ==
    /\ mig.pc = "Appending"
    /\ \E f \in {NoFault, Fault("add_records")} :
        IF f.site = "add_records"
        THEN /\ mig' = [mig EXCEPT !.pc = "Failed",
                                   !.err = Outer(mig.op, Wrap("Migration failed",
                                                               DatasetError("Failed to add records", f.kind))),
                                   !.calls = <<Call("add_records", <<mig.offset>>, FALSE)>>]
             /\ UNCHANGED datasets
        ELSE /\ datasets' = [datasets EXCEPT ![mig.target].records = @ \o mig.records]
             /\ mig' = [mig EXCEPT !.pc = "Fetching", !.offset = @ + Len(mig.records),
                                   !.calls = <<Call("add_records", <<mig.offset>>, TRUE)>>]
    /\ UNCHANGED <<workspaces, last, ops>>

Next ==
    \/ GetWorkspace
    \/ CreateDataset
    \/ GetOrCreateWorkspace
    \/ GetOrCreateDataset
    \/ LogRecords
    \/ DeleteDataset
    \/ MigrateDataset
    \/ UpdateDatasetSettings
    \/ CloneDataset
    \/ MigrateFetch
    \/ MigrateTransform
    \/ MigrateAppend
    \/ Return

Spec == Init /\ [][Next]_vars

\* The loop body runs to its end: nothing else runs in this single-threaded program.
FairSpec == Spec /\ WF_vars(MigrateFetch) /\ WF_vars(MigrateTransform) /\ WF_vars(MigrateAppend)

(***************************************************************************)
(* The properties.                                                         *)
(***************************************************************************)
\* The records of the source a migration reads (none when the lookup gave None).
SourceRecords == IF mig.source = None THEN <<>> ELSE datasets[mig.source].records

\* What the loop makes of the source records s before it appends them.
Migrated(s) == IF mig.transform = "None" THEN s ELSE [i \in 1..Len(s) |-> s[i] \o "*"]

\* An operation has just been called: the step from "no pending outcome" to its outcome.
Called(op) == last.op = "none" /\ last'.op = op

\* C1: when migrate_dataset is called without a transform and returns, the target holds
\* exactly the records of the source, each once, in the source's order, whatever the
\* source size and the batch_size.
C1_MigrationCopiesEverything ==
    (mig.op = "migrate_dataset" /\ mig.pc = "Completed" /\ mig.transform = "None")
        => datasets[mig.target].records = SourceRecords

\* C1, for batch_size >= 1 only: the same statement, which the code does meet.
C1_CopiesEverythingForPositiveBatch ==
    (mig.op = "migrate_dataset" /\ mig.pc = "Completed" /\ mig.transform = "None" /\ mig.batch_size >= 1)
        => datasets[mig.target].records = SourceRecords

\* C2: after clone_dataset succeeds, the settings of the new dataset (guidelines, fields,
\* questions/labels) are the settings read from the source dataset.
C2_CloneKeepsSettings ==
    (mig.op = "clone_dataset" /\ mig.pc = "Completed")
        => datasets[mig.target].settings = datasets[mig.source].settings

\* C3: when transform_record raises on the batch fetched at offset k, the migration's next
\* step is Failed with a DatasetError, nothing is appended for that batch, and a failed
\* migration fetches nothing more, appends nothing more and never completes.
C3_TransformFailureAborts ==
    [][/\ (mig.pc = "Transforming" /\ mig.transform # "None"
             /\ \E i \in 1..Len(mig.records) : Raises(mig.transform, mig.records[i]))
          => /\ mig'.pc = "Failed"
             /\ mig'.err.kind = "DatasetError"
             /\ mig'.err.ctx = "Record transformation failed"
             /\ mig'.ret = None
             /\ mig'.offset = mig.offset
             /\ datasets' = datasets
       /\ mig.pc = "Failed"
          => /\ mig'.pc \in {"Failed", "NotStarted"}
             /\ datasets' = datasets]_vars

C3_Witness ==
    /\ mig.pc = "Failed"
    /\ mig.err.ctx = "Record transformation failed"
    /\ mig.offset > 0
    /\ Len(datasets[mig.target].records) = mig.offset

\* C4: with the SDK calls completing, _get_workspace(name, create) returns the existing
\* workspace and creates nothing when one of that name is present; creates exactly that
\* workspace and returns it when none is present and create is true; raises DatasetError
\* and creates nothing when none is present and create is false.
C4_WorkspaceResolver ==
    [][Called("_get_workspace") =>
         LET name == last'.args[1]
             create == last'.args[2]
         IN  /\ datasets' = datasets
             /\ (\A i \in 1..Len(last'.calls) : last'.calls[i].ok) =>
                  /\ name \in workspaces =>
                       /\ workspaces' = workspaces
                       /\ last'.ret = <<name>>
                       /\ last'.err = NoErr
                  /\ (name \notin workspaces /\ create) =>
                       /\ workspaces' = workspaces \cup {name}
                       /\ last'.ret = <<name>>
                       /\ last'.err = NoErr
                  /\ (name \notin workspaces /\ ~create) =>
                       /\ workspaces' = workspaces
                       /\ last'.ret = None
                       /\ last'.err.kind = "DatasetError"]_vars

C4_Witness ==
    /\ last.op = "_get_workspace"
    /\ last.err = NoErr
    /\ Len(last.calls) = 2
    /\ last.calls[2].site = "Workspace.create"
    /\ last.ret[1] \in workspaces

\* C5: update_dataset_settings(create_new_version=True) leaves the original dataset's
\* records and settings as they were at every step, whether it ends Completed or Failed,
\* and when it completes it returns another dataset of the same workspace, which exists
\* and is named dataset + "_v" + the time of the call to the second.
C5_VersionedUpdate ==
    [][mig'.op = "update_dataset_settings" =>
         LET w == mig'.args[1]
             d == mig'.args[2]
         IN  /\ <<w, d>> \in DOMAIN datasets =>
                  /\ <<w, d>> \in DOMAIN datasets'
                  /\ datasets'[<<w, d>>] = datasets[<<w, d>>]
             /\ mig'.pc = "Completed" =>
                  /\ mig'.ret = <<w, (d \o "_v") \o ToString(mig'.at \div TicksPerSecond)>>
                  /\ mig'.ret # <<w, d>>
                  /\ mig'.ret \in DOMAIN datasets'
                  /\ <<w, d>> \in DOMAIN datasets']_vars

C5_Witness ==
    /\ mig.op = "update_dataset_settings"
    /\ mig.pc = "Completed"
    /\ mig.ret # None
    /\ Len(datasets[mig.ret].records) > 0
    /\ datasets[mig.ret].settings # datasets[<<mig.args[1], mig.args[2]>>].settings

\* C6: delete_dataset(workspace, dataset) raises DatasetError when the workspace does not
\* exist or when it exists but holds no dataset of that name, and in both cases creates no
\* workspace and deletes no dataset.
C6_DeleteOfMissingDataset ==
    [][Called("delete_dataset") =>
         LET w == last'.args[1]
             d == last'.args[2]
         IN  (w \notin workspaces \/ <<w, d>> \notin DOMAIN datasets) =>
                  /\ last'.err.kind = "DatasetError"
                  /\ workspaces' = workspaces
                  /\ datasets' = datasets]_vars

C6_Witness ==
    /\ last.op = "delete_dataset"
    /\ last.args[1] \in workspaces
    /\ <<last.args[1], last.args[2]>> \notin DOMAIN datasets
    /\ last.err.kind = "DatasetError"
    /\ last.err.cause = "AttributeError"

Helpers == {"get_or_create_workspace", "get_or_create_dataset", "log_records_to_dataset"}

\* No call follows a call that raised, so none is issued again.
NoCallAfterFailure(calls) == \A i \in 1..Len(calls) : ~calls[i].ok => i = Len(calls)

\* A failed call is not issued again: no later call has its site and its argument.
NoRetry(calls) ==
    \A i, j \in 1..Len(calls) :
        (i < j /\ ~calls[i].ok) => ~(calls[j].site = calls[i].site /\ calls[j].arg = calls[i].arg)

\* A failure that reaches the caller is a DatasetError, wrapped once, the innermost one.
TranslatedOnce(e) ==
    e # NoErr =>
        /\ e.kind = "DatasetError"
        /\ e.wraps = 1
        /\ e.cause = "none" => e.ctx = "Workspace not found"
        /\ e.cause = "ValueError" => e.ctx = "Record transformation failed"
        /\ e.cause = "ConflictError" => e.ctx = "Failed to create dataset"

C9_LoopTerminates ==
    /\ Running ~> mig.pc \in {"Completed", "Failed"}
    /\ [][Running =>
            /\ mig'.total = mig.total
            /\ mig'.offset >= mig.offset
            /\ mig'.offset <= mig'.total
            /\ mig.pc = "Appending" =>
                 /\ Len(mig.records) > 0
                 /\ mig'.pc \in {"Fetching", "Failed"}
                 /\ mig'.pc = "Fetching" => mig'.offset = mig.offset + Len(mig.records)
            /\ mig.pc # "Appending" => mig'.offset = mig.offset
            /\ mig'.pc = "Completed" =>
                 /\ mig.pc = "Fetching"
                 /\ mig.offset >= mig.total \/ mig'.records = <<>>]_vars

C9_Witness ==
    /\ mig.pc = "Completed"
    /\ mig.batch_size = 1
    /\ mig.total >= 2
    /\ mig.offset = mig.total

\* C10: from the creation of the target on, after a failure too, the target exists and
\* its records are the (transformed) first `offset` records of the source, in order; a
\* batch about to be appended is the (transformed) run of source records at `offset`.
C10_TargetIsMigratedPrefix ==
    (mig.op # "none" /\ mig.target # None) =>
        /\ mig.target \in DOMAIN datasets
        /\ mig.offset <= Len(SourceRecords)
        /\ datasets[mig.target].records = Migrated(SubSeq(SourceRecords, 1, mig.offset))
        /\ mig.pc = "Appending" =>
             /\ mig.offset + Len(mig.records) <= Len(SourceRecords)
             /\ mig.records = Migrated(SubSeq(SourceRecords, mig.offset + 1, mig.offset + Len(mig.records)))

C10_Witness ==
    /\ mig.pc = "Failed"
    /\ mig.err.ctx = "Failed to add records"
    /\ mig.transform # "None"
    /\ mig.offset > 0
    /\ Len(datasets[mig.target].records) = mig.offset

====
